---- MODULE Spec2Model ----
(***************************************************************************)
(* jupyterlab_templates/extension.py: the two template loaders             *)
(* (TemplatesLoader over the local filesystem, ContentsManagerTemplates-   *)
(* Loader over a contents manager) and the two request handlers            *)
(* (TemplateNamesHandler, TemplatesHandler).                               *)
(*                                                                         *)
(* A path or any other Python str is a sequence of fragments: "/" , one    *)
(* letter of a directory name, or an indivisible fragment such as          *)
(* ".ipynb_checkpoints" or a whole file name.  str operations (replace,    *)
(* strip, in, os.path.join, os.path.split) work on these sequences the way *)
(* the Python ones work on characters.                                     *)
(***************************************************************************)
EXTENDS Integers, Sequences, FiniteSets, TLC

VARIABLES
    local_files,        \* config "local_files": which loader was installed (l.193)
    template_dirs,      \* TemplatesLoader.template_dirs (list of roots)
    allowed_extensions, \* loader.allowed_extensions
    template_label,     \* loader.template_label
    fs,                 \* the local filesystem: file path -> file state
    store,              \* the contents manager: item path -> item type
    resp,               \* the request handled last: its handler, argument and loader call
    fresh,              \* the filesystem has not changed since that request was handled
    scan                \* ContentsManagerTemplatesLoader.get_templates in progress

vars == <<local_files, template_dirs, allowed_extensions, template_label, fs, store, resp, fresh, scan>>

conf == <<local_files, template_dirs, allowed_extensions, template_label>>

-----------------------------------------------------------------------------
(* Strings *)

SEP == "/"

TEMPLATES_IGNORE_FILE == ".jupyterlab_templates_ignore"

CHECKPOINTS == ".ipynb_checkpoints"

\* s.startswith(p)
StartsWith(s, p) == Len(s) >= Len(p) /\ SubSeq(s, 1, Len(p)) = p

\* sub in s
Contains(s, sub) == \E i \in 0..(Len(s) - Len(sub)) : SubSeq(s, i + 1, i + Len(sub)) = sub

RECURSIVE Replace(_, _, _)
\* s.replace(old, new), old not empty: every non-overlapping occurrence, left to right
Replace(s, old, new) ==
    IF Len(s) < Len(old) THEN s
    ELSE IF SubSeq(s, 1, Len(old)) = old
         THEN new \o Replace(SubSeq(s, Len(old) + 1, Len(s)), old, new)
         ELSE <<Head(s)>> \o Replace(Tail(s), old, new)

RECURSIVE LStrip(_, _)
LStrip(s, chars) == IF s # <<>> /\ Head(s) \in chars THEN LStrip(Tail(s), chars) ELSE s

RECURSIVE RStrip(_, _)
RStrip(s, chars) ==
    IF s # <<>> /\ s[Len(s)] \in chars THEN RStrip(SubSeq(s, 1, Len(s) - 1), chars) ELSE s

\* s.strip(chars)
Strip(s, chars) == RStrip(LStrip(s, chars), chars)

\* os.path.join(a, b) (posixpath)
Join(a, b) ==
    IF StartsWith(b, <<SEP>>) THEN b
    ELSE IF a = <<>> \/ a[Len(a)] = SEP THEN a \o b
    ELSE a \o <<SEP>> \o b

\* the index of the last "/" of p, 0 when there is none
LastSep(p) == IF \E i \in 1..Len(p) : p[i] = SEP
              THEN CHOOSE i \in 1..Len(p) : p[i] = SEP /\ \A j \in (i + 1)..Len(p) : p[j] # SEP
              ELSE 0

\* os.path.split(p): <<head, tail>>; head loses its trailing slashes unless it is all slashes
Split(p) ==
    LET i == LastSep(p)
        head == SubSeq(p, 1, i)
        tail == SubSeq(p, i + 1, Len(p))
    IN <<IF \A k \in 1..Len(head) : head[k] = SEP THEN head ELSE RStrip(head, {SEP}), tail>>

\* fnmatch(x, y) for the file names and patterns of the model
fnmatch(x, y) ==
    CASE y = "*.ipynb" -> x \in {"x.ipynb"}
      [] y = "*.txt" -> x \in {"r.txt"}
      [] OTHER -> x = y

\* json.dumps / tornado's encoding of a dict chunk
JsonEncode(v) == [json |-> v]

-----------------------------------------------------------------------------
(* The local filesystem *)

T == <<SEP, "t">>

U == <<SEP, "u">>

\* the directories of the filesystem, in an order os.walk may yield them (top-down)
DirOrder ==
    << T,
       T \o <<SEP, "a">>,
       T \o <<SEP, "a", SEP, "b">>,
       T \o <<SEP, CHECKPOINTS>>,
       U,
       U \o <<SEP, "a">> >>

Dirs == {DirOrder[i] : i \in 1..Len(DirOrder)}

\* the file names a directory may hold, in the order the directory lists them
FileOrder == <<"r.txt", "x.ipynb", TEMPLATES_IGNORE_FILE>>

FileNames == {FileOrder[i] : i \in 1..Len(FileOrder)}

\* the files that may exist: a notebook at the top of a root, a directory with a notebook,
\* another file and the ignore file, a directory below it, a checkpoint directory, and a
\* directory of the second root
FilePaths ==
    { Join(T, <<"x.ipynb">>),
      Join(DirOrder[2], <<"x.ipynb">>), Join(DirOrder[2], <<"r.txt">>),
      Join(DirOrder[2], <<TEMPLATES_IGNORE_FILE>>),
      Join(DirOrder[3], <<"x.ipynb">>),
      Join(DirOrder[4], <<"x.ipynb">>),
      Join(DirOrder[6], <<"x.ipynb">>) }

ABSENT == "absent"

Exists(f, p) == p \in DOMAIN f /\ f[p] # ABSENT

\* a file that exists and whose open() raises PermissionError
NOPERM == "noperm"

\* bytes that are not valid UTF-8
BADBYTES == "bad"

\* the byte contents that are valid UTF-8
GoodBytes == {"b1", "b2"}

\* what a file of that name may hold (only notebooks are ever opened)
FileStates(p) ==
    IF p[Len(p)] = "x.ipynb" THEN GoodBytes \cup {BADBYTES, NOPERM} ELSE {"b1"}

\* at most this many files exist at a time
MaxFiles == 3

NumFiles(f) == Cardinality({p \in FilePaths : f[p] # ABSENT})

\* bytes.decode("utf8") of valid bytes
Decode(b) == IF b = "b1" THEN "text1" ELSE "text2"

\* the file names of directory d
listdir(f, d) == SelectSeq(FileOrder, LAMBDA n : Exists(f, Join(d, <<n>>)))

\* os.walk(path, followlinks=True): <<dirname, filenames>> of path and of every directory below
os_walk(f, path) ==
    LET below == SelectSeq(DirOrder, LAMBDA d : d = path \/ StartsWith(d, Join(path, <<>>)))
    IN [i \in 1..Len(below) |-> <<below[i], listdir(f, below[i])>>]

\* os.path.abspath(os.path.join(os.path.realpath(path), os.pardir)) of an absolute path
\* without symbolic links: its parent directory
abspath_pardir(path) == Split(RStrip(path, {SEP}))[1]

\* open(p, "r", encoding="utf8").read(): the text, or the exception raised
open_read(f, p) ==
    IF ~Exists(f, p) THEN [raised |-> "FileNotFoundError"]
    ELSE IF f[p] = NOPERM THEN [raised |-> "PermissionError"]
    ELSE IF f[p] = BADBYTES THEN [raised |-> "UnicodeDecodeError"]
    ELSE [raised |-> "", text |-> Decode(f[p])]

-----------------------------------------------------------------------------
(* TemplatesLoader *)

\* files.append((os.path.join(dirname, filename), dirname.replace(path, ""), filename))
FileEntry(path, dirname, filename) ==
    <<Join(dirname, <<filename>>), Replace(dirname, path, <<>>), filename>>

\* DirEntries without the test for the ignore file
DirEntries_NoIgnore(exts, path, dirname, filenames) ==
    IF dirname = path THEN <<>>
    ELSE LET _files == SelectSeq(filenames, LAMBDA x : \E j \in 1..Len(exts) : fnmatch(x, exts[j]))
         IN IF Contains(dirname, <<CHECKPOINTS>>) THEN <<>>
            ELSE [i \in 1..Len(_files) |-> FileEntry(path, dirname, _files[i])]

\* the entries one directory of the walk adds to files (l.48-65)
DirEntries(exts, path, dirname, filenames) ==
    IF dirname = path THEN <<>>
    ELSE IF \E i \in 1..Len(filenames) : filenames[i] = TEMPLATES_IGNORE_FILE THEN <<>>
    ELSE LET _files == SelectSeq(filenames, LAMBDA x : \E j \in 1..Len(exts) : fnmatch(x, exts[j]))
         IN IF Contains(dirname, <<CHECKPOINTS>>) THEN <<>>
            ELSE [i \in 1..Len(_files) |-> FileEntry(path, dirname, _files[i])]

RECURSIVE WalkFiles(_, _, _)
\* files after the loop over os.walk(path) (l.45-65)
WalkFiles(exts, path, walk) ==
    IF walk = <<>> THEN <<>>
    ELSE DirEntries(exts, path, Head(walk)[1], Head(walk)[2]) \o WalkFiles(exts, path, Tail(walk))

\* IndexKey with the record's path as the key
IndexKey_Path(data) == data.path

\* the key under which a record is stored in template_by_path (l.92)
IndexKey(data) == data.name

\* ReadOne that makes the group of a file before it tries to read the file
ReadOne_GroupFirst(f, abspath, acc, entry) ==
    LET got == open_read(f, Join(abspath, entry[1]))
        dirname == entry[2]
        filename == entry[3]
        data == [path |-> entry[1], name |-> Join(dirname, <<filename>>), dirname |-> dirname,
                 filename |-> filename, content |-> got.text]
        key == Strip(dirname, {SEP})
        old == IF key \in DOMAIN acc.templates THEN acc.templates[key] ELSE <<>>
    IN IF acc.raised # "" THEN acc
       ELSE IF got.raised \in {"FileNotFoundError", "PermissionError"}
            THEN [acc EXCEPT !.templates = [k \in DOMAIN acc.templates \cup {key} |->
                                              IF k = key THEN old ELSE acc.templates[k]]]
       ELSE IF got.raised # "" THEN [acc EXCEPT !.raised = got.raised]
       ELSE [raised |-> "",
             templates |-> [k \in DOMAIN acc.templates \cup {key} |->
                               IF k = key THEN Append(old, [name |-> data.name]) ELSE acc.templates[k]],
             template_by_path |-> [k \in DOMAIN acc.template_by_path \cup {IndexKey(data)} |->
                               IF k = IndexKey(data) THEN data ELSE acc.template_by_path[k]]]

\* one turn of the loop over files (l.67-92); acc = [raised, templates, template_by_path]
ReadOne(f, abspath, acc, entry) ==
    LET got == open_read(f, Join(abspath, entry[1]))
        dirname == entry[2]
        filename == entry[3]
        data == [path |-> entry[1], name |-> Join(dirname, <<filename>>), dirname |-> dirname,
                 filename |-> filename, content |-> got.text]
        key == Strip(dirname, {SEP})
        old == IF key \in DOMAIN acc.templates THEN acc.templates[key] ELSE <<>>
    IN IF acc.raised # "" THEN acc
       ELSE IF got.raised \in {"FileNotFoundError", "PermissionError"} THEN acc
       ELSE IF got.raised # "" THEN [acc EXCEPT !.raised = got.raised]
       ELSE [raised |-> "",
             templates |-> [k \in DOMAIN acc.templates \cup {key} |->
                               IF k = key THEN Append(old, [name |-> data.name]) ELSE acc.templates[k]],
             template_by_path |-> [k \in DOMAIN acc.template_by_path \cup {IndexKey(data)} |->
                               IF k = IndexKey(data) THEN data ELSE acc.template_by_path[k]]]

RECURSIVE ReadFiles(_, _, _, _)
ReadFiles(f, abspath, acc, files) ==
    IF files = <<>> THEN acc
    ELSE ReadFiles(f, abspath, ReadOne(f, abspath, acc, Head(files)), Tail(files))

RECURSIVE OldRoots(_, _, _, _)
\* the loop over self.template_dirs (l.42-92)
OldRoots(f, exts, acc, roots) ==
    IF roots = <<>> THEN acc
    ELSE LET path == Head(roots)
             files == WalkFiles(exts, path, os_walk(f, path))
         IN OldRoots(f, exts, ReadFiles(f, abspath_pardir(path), acc, files), Tail(roots))

\* TemplatesLoader._old: [raised, templates, template_by_path]
_old(f, roots, exts) ==
    OldRoots(f, exts, [raised |-> "", templates |-> <<>>, template_by_path |-> <<>>], roots)

\* TemplatesLoader.get_templates: the catalog, or the exception
get_templates(f, roots, exts) ==
    LET r == _old(f, roots, exts)
    IN IF r.raised # "" THEN [raised |-> r.raised] ELSE [raised |-> "", value |-> r.templates]

\* Subscript as dict.get with a default record
Subscript_Default(dict, path) ==
    IF path \in DOMAIN dict THEN [raised |-> "", value |-> dict[path]]
    ELSE [raised |-> "",
          value |-> [path |-> path, name |-> path, dirname |-> <<>>, filename |-> "", content |-> ""]]

\* what [path] does on a dict: the value, or KeyError
Subscript(dict, path) ==
    IF path \in DOMAIN dict THEN [raised |-> "", value |-> dict[path]] ELSE [raised |-> "KeyError"]

\* TemplatesLoader.get_template: the record, or the exception
get_template(f, roots, exts, path) ==
    LET r == _old(f, roots, exts)
    IN IF r.raised # "" THEN [raised |-> r.raised] ELSE Subscript(r.template_by_path, path)

-----------------------------------------------------------------------------
(* The contents manager and ContentsManagerTemplatesLoader *)

G == <<"g">>

GD == <<"g", SEP, "d">>

\* the paths of the contents manager, in the order a directory lists its children
StoreOrder ==
    << G, GD, GD \o <<SEP, "e">>, G \o <<SEP, "k">>, <<"z">>,
       Join(G, <<"n.ipynb">>), Join(GD, <<"n.ipynb">>), Join(GD \o <<SEP, "e">>, <<"n.ipynb">>),
       Join(<<"z">>, <<"n.ipynb">>) >>

\* the directories of the contents manager
StoreDirs == {StoreOrder[i] : i \in 1..5}

\* the items that may exist in them
StoreItems == {StoreOrder[i] : i \in 6..Len(StoreOrder)}

\* an item is missing, a notebook, or a file of another type
ItemTypes == {"none", "notebook", "file"}

\* the "type" of the model at path
TypeOf(st, path) ==
    IF path \in StoreDirs THEN "directory"
    ELSE IF path \in DOMAIN st THEN st[path] ELSE "none"

\* the content of the notebook at path
NotebookContent(path) == [cells |-> path]

\* the models {"type", "path"} of the children of directory path
Children(st, path) ==
    LET below == SelectSeq(StoreOrder, LAMBDA y : TypeOf(st, y) # "none" /\ Split(y)[1] = path)
    IN [i \in 1..Len(below) |-> [type |-> TypeOf(st, below[i]), path |-> below[i]]]

\* contents_manager.get(path, content=True, type=type): [raised, content]
cm_get(st, path, type) ==
    IF TypeOf(st, path) = "none" THEN [raised |-> "HTTPError404"]
    ELSE IF TypeOf(st, path) # type THEN [raised |-> "HTTPError400"]
    ELSE IF type = "directory" THEN [raised |-> "", content |-> Children(st, path)]
    ELSE [raised |-> "", content |-> NotebookContent(path)]

\* ContentsManagerTemplatesLoader.get_template (l.128-137)
cm_get_template(st, path) ==
    LET got == cm_get(st, path, "notebook")
    IN IF got.raised # "" THEN [raised |-> got.raised]
       ELSE [raised |-> "",
             value |-> [path |-> path, name |-> Split(path)[2], dirname |-> Split(path)[1],
                        filename |-> Split(path)[2], content |-> JsonEncode(got.content)]]

\* ScanChild that does not queue the directories it finds
ScanChild_NoRecurse(acc, x) ==
    IF x.type = "notebook" THEN [acc EXCEPT !.found = Append(@, [name |-> x.path])] ELSE acc

\* one turn of the loop over dir_result["content"] (l.120-124); acc = [dirs_to_scan, found]
ScanChild(acc, x) ==
    IF x.type = "directory" THEN [acc EXCEPT !.dirs_to_scan = @ \cup {x.path}]
    ELSE IF x.type = "notebook" THEN [acc EXCEPT !.found = Append(@, [name |-> x.path])]
    ELSE acc

RECURSIVE ScanContent(_, _)
ScanContent(acc, content) ==
    IF content = <<>> THEN acc ELSE ScanContent(ScanChild(acc, Head(content)), Tail(content))

\* what dirs_to_scan.pop() leaves in the set
PopRest(dirs_to_scan, path) == dirs_to_scan \ {path}

-----------------------------------------------------------------------------
(* The request handlers (tornado.web.RequestHandler) *)

NoBody == [json |-> <<>>]

NotSent == [status |-> 0, body |-> NoBody]

\* a RequestHandler before its get() runs
NewHandler == [_status_code |-> 200, _finished |-> FALSE, sent |-> NotSent]

\* RequestHandler.set_status
set_status(h, code) == [h EXCEPT !._status_code = code]

\* RequestHandler.finish(chunk): sends the status line as it is now, and the body; tornado
\* finishes a handler after its get() only when it has not finished
finish(h, body) ==
    IF h._finished THEN h
    ELSE [h EXCEPT !._finished = TRUE, !.sent = [status |-> h._status_code, body |-> body]]

\* what tornado does with an exception out of get(): send_error
send_error(h, exc) ==
    LET code == IF exc = "HTTPError404" THEN 404 ELSE IF exc = "HTTPError400" THEN 400 ELSE 500
    IN finish(set_status(h, code), JsonEncode(<<"error", exc>>))

\* a request's "template" query argument
NoArg == [present |-> FALSE, value |-> <<>>]

Arg(v) == [present |-> TRUE, value |-> v]

\* self.get_argument("template", ""): the default when absent, else the stripped value
get_argument(arg) == IF arg.present THEN Strip(arg.value, {" "}) ELSE <<>>

\* HandlerGet with set_status(404) moved before the finish of the record
HandlerGet_StatusFirst(temp, r) ==
    IF temp # <<>>
    THEN IF r.raised # "" THEN send_error(NewHandler, r.raised)
         ELSE finish(finish(set_status(NewHandler, 404), JsonEncode(r.value)), NoBody)
    ELSE finish(set_status(NewHandler, 404), NoBody)

\* HandlerGet without the set_status(404)
HandlerGet_No404(temp, r) ==
    IF temp # <<>>
    THEN IF r.raised # "" THEN send_error(NewHandler, r.raised)
         ELSE finish(finish(NewHandler, JsonEncode(r.value)), NoBody)
    ELSE finish(NewHandler, NoBody)

\* TemplatesHandler.get once the loader has answered r (l.147-149), then tornado's
\* finish of a handler that has not finished
HandlerGet(temp, r) ==
    IF temp # <<>>
    THEN IF r.raised # "" THEN send_error(NewHandler, r.raised)
         ELSE finish(set_status(finish(NewHandler, JsonEncode(r.value)), 404), NoBody)
    ELSE finish(set_status(NewHandler, 404), NoBody)

\* the calls of loader.get_template TemplatesHandler.get makes
HandlerCalls(temp) == IF temp # <<>> THEN <<temp>> ELSE <<>>

\* no request handled yet
NoResp == [endpoint |-> "", arg |-> NoArg, called |-> <<>>, answer |-> [raised |-> ""], handler |-> NewHandler]

\* a frame of ContentsManagerTemplatesLoader.get_templates; listed counts the calls of
\* contents_manager.get(path, type="directory") made for each group
NoScan ==
    [pc |-> "idle", todo |-> <<>>, name |-> "", dirs_to_scan |-> {}, templates |-> <<>>,
     listed |-> <<>>]

Idle == scan.pc = "idle"

\* loader_get_template answering from the fetch handled last when it was for the same path
loader_get_template_Cached(temp) ==
    IF resp.endpoint = "get" /\ resp.called = <<temp>> THEN resp.answer
    ELSE IF local_files THEN get_template(fs, template_dirs, allowed_extensions, temp)
    ELSE cm_get_template(store, temp)

\* self.loader.get_template(temp, self.contents_manager) of the loader installed (l.193-196)
loader_get_template(temp) ==
    IF local_files THEN get_template(fs, template_dirs, allowed_extensions, temp)
    ELSE cm_get_template(store, temp)

\* TemplatesHandler.get, for a request that passed @tornado.web.authenticated
TemplatesHandler_get(arg) ==
    /\ Idle
    /\ LET temp == get_argument(arg)
           r == IF temp # <<>> THEN loader_get_template(temp) ELSE [raised |-> ""]
       IN resp' = [endpoint |-> "get", arg |-> arg, called |-> HandlerCalls(temp), answer |-> r,
                   handler |-> HandlerGet(temp, r)]
    /\ fresh' = TRUE
    /\ UNCHANGED <<conf, fs, store, scan>>

\* TemplateNamesHandler.get once the loader has answered r (l.158-160)
NamesGet(r, label) ==
    IF r.raised # "" THEN send_error(NewHandler, r.raised)
    ELSE finish(NewHandler, JsonEncode([templates |-> r.value, template_label |-> label]))

NamesResp(r, label) ==
    [endpoint |-> "names", arg |-> NoArg, called |-> <<>>, answer |-> r, handler |-> NamesGet(r, label)]

\* TemplateNamesHandler.get with the local loader, for an authenticated request
TemplateNamesHandler_get ==
    /\ local_files
    /\ resp' = NamesResp(get_templates(fs, template_dirs, allowed_extensions), template_label)
    /\ fresh' = TRUE
    /\ UNCHANGED <<conf, fs, store, scan>>

\* TemplateNamesHandler.get with the contents manager loader: get_templates is entered (l.109-110)
NamesStart ==
    /\ ~local_files
    /\ Idle
    /\ scan' = [pc |-> "for", todo |-> template_dirs, name |-> "", dirs_to_scan |-> {},
                templates |-> <<>>,
                listed |-> [x \in {template_dirs[i][1] : i \in 1..Len(template_dirs)} \X StoreDirs |-> 0]]
    /\ UNCHANGED <<conf, fs, store, resp, fresh>>

\* for name in self.template_dirs: the next group, or the end of the loop (l.112-114)
ScanFor ==
    /\ scan.pc = "for"
    /\ IF scan.todo = <<>>
       THEN scan' = [scan EXCEPT !.pc = "return"]
       ELSE LET name == Head(scan.todo)[1]
                root == Head(scan.todo)[2]
            IN scan' = [scan EXCEPT !.pc = "while", !.todo = Tail(@), !.name = name,
                                    !.dirs_to_scan = {root},
                                    !.templates = [k \in DOMAIN @ \cup {name} |->
                                                     IF k = name THEN <<>> ELSE @[k]]]
    /\ UNCHANGED <<conf, fs, store, resp, fresh>>

\* while len(dirs_to_scan) > 0: pop any one directory and list it (l.116-124)
ScanWhile ==
    /\ scan.pc = "while"
    /\ IF scan.dirs_to_scan = {}
       THEN scan' = [scan EXCEPT !.pc = "for"]
       ELSE \E path \in scan.dirs_to_scan :
              LET dir_result == cm_get(store, path, "directory")
                  after == ScanContent([dirs_to_scan |-> PopRest(scan.dirs_to_scan, path),
                                        found |-> scan.templates[scan.name]],
                                       dir_result.content)
              IN scan' = [scan EXCEPT !.dirs_to_scan = after.dirs_to_scan,
                                      !.templates[scan.name] = after.found,
                                      !.listed[<<scan.name, path>>] = @ + 1]
    /\ UNCHANGED <<conf, fs, store, resp, fresh>>

\* return templates, and the handler's response (l.126, l.159-160)
NamesReturn ==
    /\ scan.pc = "return"
    /\ resp' = NamesResp([raised |-> "", value |-> scan.templates], template_label)
    /\ scan' = [scan EXCEPT !.pc = "idle"]
    /\ fresh' = TRUE
    /\ UNCHANGED <<conf, fs, store>>

-----------------------------------------------------------------------------
(* The filesystem changing under the server *)

AddFile(p, b) ==
    /\ local_files
    /\ fs[p] = ABSENT
    /\ NumFiles(fs) < MaxFiles
    /\ fs' = [fs EXCEPT ![p] = b]
    /\ fresh' = FALSE
    /\ UNCHANGED <<conf, store, resp, scan>>

RewriteFile(p, b) ==
    /\ local_files
    /\ fs[p] \notin {ABSENT, b}
    /\ fs' = [fs EXCEPT ![p] = b]
    /\ fresh' = FALSE
    /\ UNCHANGED <<conf, store, resp, scan>>

RemoveFile(p) ==
    /\ local_files
    /\ fs[p] # ABSENT
    /\ fs' = [fs EXCEPT ![p] = ABSENT]
    /\ fresh' = FALSE
    /\ UNCHANGED <<conf, store, resp, scan>>

-----------------------------------------------------------------------------

\* the "template" arguments of the requests: none, empty, blank, a name of the catalog,
\* the path of a file, a notebook of the contents manager, a directory of it
RequestArgs ==
    IF local_files
    THEN { NoArg, Arg(<<>>), Arg(<<" ">>),
           Arg(<<SEP, "a", SEP, "x.ipynb">>),
           Arg(<<SEP, "t", SEP, "a", SEP, "x.ipynb">>) }
    ELSE { NoArg, Arg(<<>>), Arg(Join(G, <<"n.ipynb">>)), Arg(Join(GD, <<"n.ipynb">>)), Arg(GD) }

Init ==
    /\ local_files \in BOOLEAN
    /\ template_dirs = IF local_files THEN <<T, U>> ELSE << <<"A", G>>, <<"B", GD>> >>
    /\ allowed_extensions = <<"*.ipynb">>
    /\ template_label = "Template"
    /\ fs = [p \in FilePaths |-> ABSENT]
    /\ store \in [StoreItems -> ItemTypes]
    /\ local_files => store = [p \in StoreItems |-> "none"]
    /\ resp = NoResp
    /\ fresh = TRUE
    /\ scan = NoScan

Next ==
    \/ \E p \in FilePaths : \E b \in FileStates(p) : AddFile(p, b)
    \/ \E p \in FilePaths : \E b \in FileStates(p) : RewriteFile(p, b)
    \/ \E p \in FilePaths : RemoveFile(p)
    \/ TemplateNamesHandler_get
    \/ NamesStart
    \/ ScanFor
    \/ ScanWhile
    \/ NamesReturn
    \/ \E arg \in RequestArgs : TemplatesHandler_get(arg)

Spec == Init /\ [][Next]_vars

-----------------------------------------------------------------------------
(* What the walk should find, said without the walk *)

\* d is a directory below root
Under(root, d) == d # root /\ StartsWith(d, root \o <<SEP>>)

\* d holds the ignore file
Ignored(f, d) == Exists(f, Join(d, <<TEMPLATES_IGNORE_FILE>>))

\* file n of directory d, found from the i-th root, is one the walk opens
Opened(f, i, d, n) ==
    /\ Under(template_dirs[i], d)
    /\ ~Ignored(f, d)
    /\ ~Contains(d, <<CHECKPOINTS>>)
    /\ \E j \in 1..Len(allowed_extensions) : fnmatch(n, allowed_extensions[j])
    /\ Exists(f, Join(d, <<n>>))

\* the files that end up in the catalog: <<root number, directory, file name>>
Listed(f) ==
    {x \in (1..Len(template_dirs)) \X Dirs \X FileNames :
        Opened(f, x[1], x[2], x[3]) /\ f[Join(x[2], <<x[3]>>)] \in GoodBytes}

\* the walk raises: it opens a file that is not UTF-8
WalkRaises(f) ==
    \E x \in (1..Len(template_dirs)) \X Dirs \X FileNames :
        Opened(f, x[1], x[2], x[3]) /\ f[Join(x[2], <<x[3]>>)] = BADBYTES

\* the name and the group the code gives a listed file
NameOf(x) == Join(Replace(x[2], template_dirs[x[1]], <<>>), <<x[3]>>)

GroupOf(x) == Strip(Replace(x[2], template_dirs[x[1]], <<>>), {SEP})

\* the number of entries of a catalog
RECURSIVE SumLen(_, _)
SumLen(cat, keys) ==
    IF keys = {} THEN 0
    ELSE LET k == CHOOSE k \in keys : TRUE IN Len(cat[k]) + SumLen(cat, keys \ {k})

Entries(cat) == SumLen(cat, DOMAIN cat)

\* the names of a catalog
CatalogNames(cat) == UNION {{cat[k][i].name : i \in 1..Len(cat[k])} : k \in DOMAIN cat}

\* the response of a names request that the local loader answered with a catalog
LocalCatalog(r) == local_files /\ r.endpoint = "names" /\ r.answer.raised = ""

\* the response of a fetch that the loader answered with a record
Fetched(r) == r.endpoint = "get" /\ r.called # <<>> /\ r.answer.raised = ""

-----------------------------------------------------------------------------
(* The content-fetch endpoint *)

\* C1: a fetch whose template argument is not empty and for which get_template returned a
\* record is answered with status 200 and the serialized record as its body; the 404 the
\* handler sets afterwards is not the status sent.
C1_FetchedIs200 ==
    (resp.endpoint = "get" /\ resp.arg.present /\ resp.arg.value # <<>>
        /\ resp.called = <<resp.arg.value>> /\ resp.answer.raised = "")
    => /\ resp.handler.sent = [status |-> 200, body |-> JsonEncode(resp.answer.value)]
       /\ resp.handler.sent.status # 404

\* a record was sent with 200, and the handler has set its status to 404 since
C1_Witness ==
    /\ Fetched(resp)
    /\ resp.arg.value # <<>>
    /\ resp.handler.sent.status = 200
    /\ resp.handler.sent.body = JsonEncode(resp.answer.value)
    /\ resp.handler._status_code = 404

\* C2: a fetch without a template argument, or with an empty one, is answered 404 with an
\* empty body whatever the filesystem or the contents manager holds, and get_template is
\* not called.
C2_MissingIs404 ==
    (resp.endpoint = "get" /\ (~resp.arg.present \/ resp.arg.value = <<>>))
    => /\ resp.handler.sent = [status |-> 404, body |-> NoBody]
       /\ resp.called = <<>>

\* a fetch without argument answered 404 while the catalog is not empty
C2_Witness ==
    /\ resp.endpoint = "get"
    /\ ~resp.arg.present
    /\ resp.handler.sent.status = 404
    /\ local_files
    /\ Listed(fs) # {}

-----------------------------------------------------------------------------
(* The local enumerator *)

\* how often name m is in group k of a catalog
Count(cat, k, m) ==
    IF k \in DOMAIN cat THEN Cardinality({i \in 1..Len(cat[k]) : cat[k][i].name = m}) ELSE 0

\* cat is the catalog of filesystem f: its groups are those of the listed files, and each
\* name is in its group once for every listed file with that group and name
CatalogIs(cat, f) ==
    /\ DOMAIN cat = {GroupOf(x) : x \in Listed(f)}
    /\ \A k \in DOMAIN cat : \A i \in 1..Len(cat[k]) :
          Count(cat, k, cat[k][i].name)
            = Cardinality({x \in Listed(f) : GroupOf(x) = k /\ NameOf(x) = cat[k][i].name})

\* the index of the walk over the filesystem as it is
IndexNow == _old(fs, template_dirs, allowed_extensions).template_by_path

\* a fetch of the local loader for argument arg is the step taken
LocalFetch(arg) == TemplatesHandler_get(arg) /\ local_files /\ get_argument(arg) # <<>>

\* the response is the local loader's answer to a fetch, on the filesystem as it is
FetchedNow == fresh /\ local_files /\ resp.endpoint = "get" /\ resp.called # <<>>

\* the response is the local loader's catalog of the filesystem as it is
CatalogNow == fresh /\ LocalCatalog(resp)

\* C3 (as claimed): a fetch of a name p of the catalog of the names request before it, the
\* filesystem unchanged since, succeeds with the decoded content of every file that produced
\* an entry p.
C3_ListedThenFetched ==
    [][\A arg \in RequestArgs :
         (/\ CatalogNow
          /\ get_argument(arg) \in CatalogNames(resp.answer.value)
          /\ LocalFetch(arg))
         => /\ resp'.answer.raised = ""
            /\ \A x \in Listed(fs) :
                 NameOf(x) = get_argument(arg)
                 => resp'.answer.value.content = Decode(fs[Join(x[2], <<x[3]>>)])]_vars

\* C4: a fetch of a path that is not a key of the index of its walk fails with KeyError (a
\* 500 for the client); no record, empty or not, is returned.
C4_UnknownPathFails ==
    (FetchedNow /\ ~WalkRaises(fs) /\ resp.called[1] \notin DOMAIN IndexNow)
    => /\ resp.answer = [raised |-> "KeyError"]
       /\ resp.handler.sent.status = 500
       /\ resp.handler.sent.body = JsonEncode(<<"error", "KeyError">>)

\* the path of a listed template file was fetched and the fetch failed
C4_Witness ==
    /\ FetchedNow
    /\ resp.answer = [raised |-> "KeyError"]
    /\ resp.arg.value \in {Join(x[2], <<x[3]>>) : x \in Listed(fs)}

\* C6: a directory holding the ignore file contributes no entry (the catalog has as many
\* entries as there are listed files, none of them in such a directory), and a subdirectory
\* of it without the ignore file contributes its matching files: each notebook of it that
\* can be read, checkpoint directories apart, has its entry.
C6_IgnoreFile ==
    CatalogNow
    => LET cat == resp.answer.value
       IN /\ \A x \in Listed(fs) : ~Ignored(fs, x[2])
          /\ Entries(cat) = Cardinality(Listed(fs))
          /\ \A i \in 1..Len(template_dirs) : \A d \in Dirs : \A c \in Dirs : \A n \in FileNames :
               (/\ Under(template_dirs[i], d) /\ Ignored(fs, d)
                /\ Split(c)[1] = d /\ ~Ignored(fs, c) /\ ~Contains(c, <<CHECKPOINTS>>)
                /\ fnmatch(n, "*.ipynb") /\ Exists(fs, Join(c, <<n>>))
                /\ fs[Join(c, <<n>>)] \in GoodBytes)
               => Count(cat, GroupOf(<<i, c, n>>), NameOf(<<i, c, n>>)) >= 1

\* a catalog with one entry, from the subdirectory of a directory that holds the ignore file
\* and a notebook of its own
C6_Witness ==
    /\ CatalogNow
    /\ Ignored(fs, DirOrder[2])
    /\ fs[Join(DirOrder[2], <<"x.ipynb">>)] \in GoodBytes
    /\ fs[Join(DirOrder[3], <<"x.ipynb">>)] \in GoodBytes
    /\ Entries(resp.answer.value) = 1
    /\ CatalogIs(resp.answer.value, fs)

\* C7 (as claimed): in a catalog no group has a name twice, and the index has one key for
\* every listed file.
C7_NamesUnique ==
    CatalogNow
    => LET cat == resp.answer.value
       IN /\ \A k \in DOMAIN cat : \A i, j \in 1..Len(cat[k]) :
               i # j => cat[k][i].name # cat[k][j].name
          /\ Cardinality(DOMAIN IndexNow) = Cardinality(Listed(fs))

\* C8 (as claimed): every directory below a root is a group of the local catalog, and the
\* groups of the contents manager catalog are the configured ones.
C8_EveryDirectoryIsAGroup ==
    /\ LocalCatalog(resp)
       => \A i \in 1..Len(template_dirs) : \A d \in Dirs :
            Under(template_dirs[i], d) => GroupOf(<<i, d, "">>) \in DOMAIN resp.answer.value
    /\ (~local_files /\ resp.endpoint = "names")
       => DOMAIN resp.answer.value = {template_dirs[i][1] : i \in 1..Len(template_dirs)}

\* C8 (amended): the groups of the local catalog are those of the listed files, so none is
\* empty and a directory without a listed file is no group; the groups of the contents
\* manager catalog are the configured ones, empty or not.
C8_GroupsOfListedFiles ==
    /\ CatalogNow
       => /\ DOMAIN resp.answer.value = {GroupOf(x) : x \in Listed(fs)}
          /\ \A k \in DOMAIN resp.answer.value : resp.answer.value[k] # <<>>
    /\ (~local_files /\ resp.endpoint = "names")
       => DOMAIN resp.answer.value = {template_dirs[i][1] : i \in 1..Len(template_dirs)}

\* a catalog of one group, while another directory holds only a notebook that cannot be read
C8_Witness ==
    /\ CatalogNow
    /\ fs[Join(DirOrder[2], <<"x.ipynb">>)] = NOPERM
    /\ fs[Join(DirOrder[3], <<"x.ipynb">>)] \in GoodBytes
    /\ DOMAIN resp.answer.value = {<<"a", SEP, "b">>}

\* the response is a record fetched from the filesystem or the contents manager as it is
RecordNow == fresh /\ Fetched(resp)

\* C9 (as claimed): fetching the path of a fetched record gives the same record.
C9_PathIsTheKey ==
    RecordNow => loader_get_template(resp.answer.value.path) = resp.answer

\* C9 (amended): a fetched record was fetched by its name from the local loader, and by its
\* path from the contents manager loader; fetching that key again gives the same record,
\* and the name of a local record differs from its path.
C9_KeyOfRecord ==
    RecordNow
    => LET r == resp.answer.value
           key == IF local_files THEN r.name ELSE r.path
       IN /\ key = resp.called[1]
          /\ loader_get_template(key) = resp.answer
          /\ local_files => r.path # r.name

\* a local record was fetched, and fetching its path fails
C9_Witness ==
    /\ RecordNow
    /\ local_files
    /\ loader_get_template(resp.answer.value.path) = [raised |-> "KeyError"]

\* C10: the configuration stays as it was installed, and the answer of the local loader to
\* a request is the one the filesystem at the time of the request gives: the catalog of the
\* listed files, the record of a listed file of the name fetched with the content the file
\* has, KeyError when no listed file has the name, UnicodeDecodeError when the walk raises.
C10_AnswersFromTheFilesystem ==
    /\ template_dirs = (IF local_files THEN <<T, U>> ELSE << <<"A", G>>, <<"B", GD>> >>)
    /\ allowed_extensions = <<"*.ipynb">>
    /\ template_label = "Template"
    /\ (fresh /\ local_files /\ resp.endpoint = "names")
       => IF WalkRaises(fs) THEN resp.answer = [raised |-> "UnicodeDecodeError"]
          ELSE resp.answer.raised = "" /\ CatalogIs(resp.answer.value, fs)
    /\ FetchedNow
       => LET p == resp.called[1]
          IN IF WalkRaises(fs) THEN resp.answer = [raised |-> "UnicodeDecodeError"]
             ELSE IF \E x \in Listed(fs) : NameOf(x) = p
             THEN /\ resp.answer.raised = ""
                  /\ resp.answer.value.name = p
                  /\ \E x \in Listed(fs) :
                       /\ NameOf(x) = p
                       /\ resp.answer.value.path = Join(x[2], <<x[3]>>)
                       /\ resp.answer.value.content = Decode(fs[Join(x[2], <<x[3]>>)])
             ELSE resp.answer = [raised |-> "KeyError"]

\* a record was fetched and its file has been removed since
C10_Witness ==
    /\ ~fresh
    /\ local_files
    /\ Fetched(resp)
    /\ fs[resp.answer.value.path] = ABSENT

-----------------------------------------------------------------------------
(* The store-backed enumerator *)

\* directory or item p is root or below it
Reachable(root, p) == p = root \/ StartsWith(p, root \o <<SEP>>)

\* C5: no directory is listed twice for a group, and when the traversal of get_templates
\* has ended, every directory reachable from a group's root has been listed once for it, no
\* other directory has, and every notebook below the root is in the group's list.
C5_StoreTraversal ==
    /\ \A x \in DOMAIN scan.listed : scan.listed[x] <= 1
    /\ (scan.pc \in {"return", "idle"} /\ scan.listed # <<>>)
       => \A i \in 1..Len(template_dirs) :
            LET name == template_dirs[i][1]
                root == template_dirs[i][2]
            IN /\ \A d \in StoreDirs :
                    scan.listed[<<name, d>>] = IF Reachable(root, d) THEN 1 ELSE 0
               /\ \A p \in StoreItems :
                    (store[p] = "notebook" /\ Reachable(root, p))
                    => \E j \in 1..Len(scan.templates[name]) : scan.templates[name][j] = [name |-> p]

\* a traversal has ended that found three notebooks for one group and two for the other
C5_Witness ==
    /\ scan.pc = "return"
    /\ Len(scan.templates["A"]) = 3
    /\ Len(scan.templates["B"]) = 2
    /\ store[StoreOrder[9]] = "notebook"

====
